---- MODULE Spec2Model ----
(***************************************************************************)
(* BlurAnything backend: the POST /detect/ handler (backend/app.py) and    *)
(* the detection pipeline it awaits (backend/detect.py).                   *)
(*                                                                         *)
(* A request is one coroutine.  Its position is pc[r]; the pipeline's      *)
(* statements are separate steps, so requests interleave between any two   *)
(* of them.  That includes every schedule of the single uvicorn event loop *)
(* (which switches tasks only at `await file.read()`) and every schedule   *)
(* of a multi-worker deployment sharing the static directory.              *)
(*                                                                         *)
(* Python values are tagged records: None, Str(chars), Dict(record),       *)
(* List(sequence).  Confidences are percentages (0.25 = 25), pixel         *)
(* coordinates are integers.                                               *)
(***************************************************************************)
EXTENDS Integers, Sequences, FiniteSets, TLC

\* ------------------------------------------------------------------ bounds

NumRequests == 2
MaxBoxes == 2

Requests == 1..NumRequests

\* ----------------------------------------------------------- python values

None == [py |-> "None"]
Str(s) == [py |-> "str", v |-> s]
Dict(d) == [py |-> "dict", v |-> d]
List(s) == [py |-> "list", v |-> s]

\* bool(x) of a dict or a list: non-empty.
Truthy(x) ==
    IF x.py = "dict" THEN DOMAIN x.v # {}
    ELSE IF x.py = "list" THEN Len(x.v) > 0
    ELSE x.py # "None"

UpperAlphabet ==
    <<"A","B","C","D","E","F","G","H","I","J","K","L","M",
      "N","O","P","Q","R","S","T","U","V","W","X","Y","Z">>

LowerAlphabet ==
    <<"a","b","c","d","e","f","g","h","i","j","k","l","m",
      "n","o","p","q","r","s","t","u","v","w","x","y","z">>

\* str.lower(): every upper-case letter replaced, everything else kept.
lower(s) ==
    [i \in 1..Len(s) |->
        IF \E k \in 1..Len(UpperAlphabet) : UpperAlphabet[k] = s[i]
        THEN LowerAlphabet[CHOOSE k \in 1..Len(UpperAlphabet) : UpperAlphabet[k] = s[i]]
        ELSE s[i]]

\* str.endswith(tuple of suffixes).
endswith(s, suffixes) ==
    \E suf \in suffixes :
        /\ Len(suf) <= Len(s)
        /\ SubSeq(s, Len(s) - Len(suf) + 1, Len(s)) = suf

\* --------------------------------------------------------------- app.py

ALLOWED_SUFFIXES ==
    { <<".", "j", "p", "g">>, <<".", "j", "p", "e", "g">>, <<".", "p", "n", "g">> }

GIF_SUFFIXES == ALLOWED_SUFFIXES \cup { <<".", "g", "i", "f">> }

validate_file_allow_gif(filename) ==
    IF filename = None THEN <<FALSE, "No file name provided.">>
    ELSE IF ~ endswith(lower(filename.v), GIF_SUFFIXES)
         THEN <<FALSE, "Invalid file type. Allowed types: jpg, jpeg, png.">>
         ELSE <<TRUE, "">>

\* validate_file(file), on file.filename.
validate_file(filename) ==
    IF filename = None THEN <<FALSE, "No file name provided.">>
    ELSE IF ~ endswith(lower(filename.v), ALLOWED_SUFFIXES)
         THEN <<FALSE, "Invalid file type. Allowed types: jpg, jpeg, png.">>
         ELSE <<TRUE, "">>

create_response(content, status_code) ==
    [content |-> content, status_code |-> status_code]

\* What the ASGI stack answers when the endpoint coroutine raises: the
\* handler has no try/except and the app registers no exception handler.
unhandled_exception_response ==
    [content |-> Str("Internal Server Error"), status_code |-> 500]

\* app.py 89-91: the handler's answer to the dict detect_objects returned.
detect_return(results) ==
    IF Truthy(results) THEN create_response(results, 200)
    ELSE create_response(Dict([message |-> "No objects detected"]), 200)

\* ------------------------------------------------------------- detect.py

MODEL_KEYS == <<"fast", "accurate">>

MODEL_PATHS ==
    [fast |-> "models/yolov8n.pt", accurate |-> "models/yolov8x.pt"]

NoException == [type |-> "none"]

InvalidModelType ==
    [type |-> "ValueError",
     text |-> "Invalid model type. Available options: ",
     options |-> MODEL_KEYS]

load_model_default_accurate(type_model) ==
    IF type_model \notin DOMAIN MODEL_PATHS
    THEN [raised |-> NoException, value |-> [weights |-> MODEL_PATHS["accurate"]]]
    ELSE [raised |-> NoException, value |-> [weights |-> MODEL_PATHS[type_model]]]

\* load_model(type_model): the exception raised, or YOLO(model_path).
load_model(type_model) ==
    IF type_model \notin DOMAIN MODEL_PATHS
    THEN [raised |-> InvalidModelType, value |-> None]
    ELSE [raised |-> NoException, value |-> [weights |-> MODEL_PATHS[type_model]]]

\* Image.open(BytesIO(image_data)) on the uploads the model draws from: a text
\* file, a grayscale picture, and two colour pictures (one without objects).
\* size is PIL's (width, height).
UPLOADS == {"notes_txt", "gray_jpg", "blank_jpg", "street_jpg"}

UnidentifiedImageError == [type |-> "UnidentifiedImageError"]

Image_open(image_data) ==
    CASE image_data = "gray_jpg" ->
           [raised |-> NoException,
            value |-> [id |-> "gray", mode |-> "L", size |-> <<4, 3>>]]
      [] image_data = "blank_jpg" ->
           [raised |-> NoException,
            value |-> [id |-> "blank", mode |-> "RGB", size |-> <<4, 3>>]]
      [] image_data = "street_jpg" ->
           [raised |-> NoException,
            value |-> [id |-> "street", mode |-> "RGB", size |-> <<6, 4>>]]
      [] OTHER -> [raised |-> UnidentifiedImageError, value |-> None]

\* np.array(image): shape (h, w) for mode L, (h, w, 3) for RGB, channels in
\* PIL's order.
np_array(image) ==
    IF image.mode = "RGB"
    THEN [id |-> image.id, shape |-> <<image.size[2], image.size[1], 3>>,
          channels |-> <<"R", "G", "B">>]
    ELSE [id |-> image.id, shape |-> <<image.size[2], image.size[1]>>,
          channels |-> <<>>]

\* image_np[:, :, ::-1]: the last axis reversed.
reverse_channels(image_np) ==
    [image_np EXCEPT !.channels =
        [i \in 1..Len(image_np.channels) |->
            image_np.channels[Len(image_np.channels) + 1 - i]]]

IndexError == [type |-> "IndexError"]

\* The label table of both weights files (COCO): result.names.
NAMES == [c \in {0, 2} |-> IF c = 0 THEN "person" ELSE "car"]

\* The rows of result.boxes.data the network yields for a picture:
\* <<x1, y1, x2, y2, conf, cls>>, boxes clipped to the picture by the
\* predictor, confidences above its 0.25 threshold.
Predictions(weights, id) ==
    IF id = "street"
    THEN IF weights = MODEL_PATHS["accurate"]
         THEN << <<0, 1, 2, 4, 91, 0>>, <<3, 0, 6, 3, 47, 2>> >>
         ELSE << <<3, 1, 6, 3, 62, 2>> >>
    ELSE << >>

\* SpeedMetrics in tenths of a millisecond.
Speed(weights) ==
    IF weights = MODEL_PATHS["accurate"]
    THEN [preprocess |-> 21, inference |-> 3120, postprocess |-> 14]
    ELSE [preprocess |-> 21, inference |-> 480, postprocess |-> 9]

\* model(image_np): a list holding one Results object.
YOLO_call(model, image_np) ==
    << [boxes |-> Predictions(model.weights, image_np.id),
        names |-> NAMES,
        speed |-> Speed(model.weights),
        orig_shape |-> <<image_np.shape[1], image_np.shape[2]>>,
        orig_img |-> [id |-> image_np.id, channels |-> image_np.channels]] >>

\* perform_detection(model, image).
perform_detection(model, image) ==
    IF Len(np_array(image).shape) < 3
    THEN [raised |-> IndexError, value |-> None]
    ELSE [raised |-> NoException,
          value |-> YOLO_call(model, reverse_channels(np_array(image)))]

\* result.boxes.conf[i] and result.boxes.cls[i]: columns of boxes.data.
boxes_conf(boxes, i) == boxes[i][5]
boxes_cls(boxes, i) == boxes[i][6]

extract_swapped_x(results) ==
    LET result == results[1] IN
    IF Len(result.boxes) # 0
    THEN [i \in 1..Len(result.boxes) |->
            [object |-> result.names[boxes_cls(result.boxes, i)],
             confidence |-> boxes_conf(result.boxes, i),
             x_min |-> result.boxes[i][3],
             y_min |-> result.boxes[i][2],
             x_max |-> result.boxes[i][1],
             y_max |-> result.boxes[i][4]]]
    ELSE << >>

extract_first_class(results) ==
    LET result == results[1] IN
    IF Len(result.boxes) # 0
    THEN [i \in 1..Len(result.boxes) |->
            [object |-> result.names[boxes_cls(result.boxes, 1)],
             confidence |-> boxes_conf(result.boxes, i),
             x_min |-> result.boxes[i][1],
             y_min |-> result.boxes[i][2],
             x_max |-> result.boxes[i][3],
             y_max |-> result.boxes[i][4]]]
    ELSE << >>

\* extract_detection_results(results): .item() yields the Python number of
\* the tensor element, int() the whole class id.
extract_detection_results(results) ==
    LET result == results[1] IN
    IF Len(result.boxes) # 0
    THEN [i \in 1..Len(result.boxes) |->
            [object |-> result.names[boxes_cls(result.boxes, i)],
             confidence |-> boxes_conf(result.boxes, i),
             x_min |-> result.boxes[i][1],
             y_min |-> result.boxes[i][2],
             x_max |-> result.boxes[i][3],
             y_max |-> result.boxes[i][4]]]
    ELSE << >>

INFERRED_IMAGE_PATH == "static/inferences/inferred_image.jpg"

\* What results[0].save(filename=...) puts in the file: the picture with
\* the boxes drawn on it.
Plot(result) == [img |-> result.orig_img.id, boxes |-> result.boxes]

NoFile == [img |-> "absent", boxes |-> << >>]

RenderError == [type |-> "RenderError"]

\* render_and_save_image(results) against the static directory: the file
\* after the call, the exception raised, the path returned.  When the
\* directory cannot be written the save either reports failure by its
\* return value, which the code drops ("returns_false"), or raises
\* ("raises"), depending on the imaging library underneath.
render_and_save_image(results, save_env, file) ==
    CASE save_env = "ok" ->
           [file |-> Plot(results[1]), raised |-> NoException,
            value |-> Str(INFERRED_IMAGE_PATH)]
      [] save_env = "returns_false" ->
           [file |-> file, raised |-> NoException,
            value |-> Str(INFERRED_IMAGE_PATH)]
      [] OTHER -> [file |-> file, raised |-> RenderError, value |-> None]

\* detect_objects' return value (detect.py 42-46).
detect_objects_return(detected, results, path) ==
    Dict([detected_objects |-> List(detected),
          speed |-> Dict(results[1].speed),
          inferred_image_path |-> path])

\* ------------------------------------------------------------------ state

VARIABLES
    pc,                   \* r -> where the request's coroutine stands
    filename,             \* r -> file.filename
    type_model,           \* r -> the type_model form field
    image_data,           \* r -> what file.read() returned
    image,                \* r -> detect_objects' local `image`
    model,                \* r -> detect_objects' local `model`
    results,              \* r -> detect_objects' local `results`
    detected_objects,     \* r -> detect_objects' local `detected_objects`
    inferred_image_path,  \* r -> detect_objects' local `inferred_image_path`
    response,             \* r -> the HTTP response sent
    raised,               \* r -> the exception that left the handler
    steps,                \* r -> the pipeline statements r has completed
    save_env,             \* whether static/inferences can be written
    disk_file,            \* the file at INFERRED_IMAGE_PATH
    x_pc,                 \* normalizer alone: "off", "input" or "done"
    x_results,            \* normalizer alone: the raw results
    x_records             \* normalizer alone: the records extracted

req_vars == <<filename, type_model, image_data>>
local_vars == <<image, model, results, detected_objects, inferred_image_path>>
out_vars == <<response, raised>>
x_vars == <<x_pc, x_results, x_records>>
vars == <<pc, req_vars, local_vars, out_vars, steps, save_env, disk_file, x_vars>>

\* file.filename of the uploads the model draws from.
FILENAMES ==
    { None,
      Str(<<"a", ".", "g", "i", "f">>),
      Str(<<"j", "p", "g">>),
      Str(<<"B", ".", "J", "P", "G">>) }

SELECTORS == {"fast", "accurate", "best"}

SAVE_ENVS == {"ok", "returns_false", "raises"}

Init ==
    /\ pc = [r \in Requests |-> "idle"]
    /\ filename = [r \in Requests |-> None]
    /\ type_model = [r \in Requests |-> ""]
    /\ image_data = [r \in Requests |-> ""]
    /\ image = [r \in Requests |-> None]
    /\ model = [r \in Requests |-> None]
    /\ results = [r \in Requests |-> None]
    /\ detected_objects = [r \in Requests |-> << >>]
    /\ inferred_image_path = [r \in Requests |-> None]
    /\ response = [r \in Requests |-> None]
    /\ raised = [r \in Requests |-> NoException]
    /\ steps = [r \in Requests |-> {}]
    /\ save_env \in SAVE_ENVS
    /\ disk_file = NoFile
    /\ x_pc = "off"
    /\ x_results = None
    /\ x_records = << >>

\* An exception leaves detect_objects and the handler: nothing catches it.
Raise(r, exc) ==
    /\ raised' = [raised EXCEPT ![r] = exc]
    /\ response' = [response EXCEPT ![r] = unhandled_exception_response]
    /\ pc' = [pc EXCEPT ![r] = "done"]

Completed(r, step, next) ==
    /\ steps' = [steps EXCEPT ![r] = @ \cup {step}]
    /\ pc' = [pc EXCEPT ![r] = next]

\* app.py 43 and 79-84: the framework calls detect(file, type_model) with
\* the form's fields and the handler runs to its first await.  `not file`
\* is never true of the UploadFile the framework passes (the class defines
\* neither __bool__ nor __len__).
Detect(r) ==
    /\ pc[r] = "idle"
    /\ \E f \in FILENAMES, t \in SELECTORS :
        /\ filename' = [filename EXCEPT ![r] = f]
        /\ type_model' = [type_model EXCEPT ![r] = t]
        /\ LET vm == validate_file(f) IN
            IF ~ vm[1]
            THEN /\ response' = [response EXCEPT ![r] =
                        create_response(Dict([error |-> vm[2]]), 400)]
                 /\ pc' = [pc EXCEPT ![r] = "done"]
            ELSE /\ pc' = [pc EXCEPT ![r] = "read"]
                 /\ UNCHANGED response
    /\ UNCHANGED <<image_data, local_vars, raised, steps, save_env, disk_file, x_vars>>

\* app.py 86: image_data = await file.read().  The upload's bytes are first
\* seen here.
ReadFile(r) ==
    /\ pc[r] = "read"
    /\ \E b \in UPLOADS : image_data' = [image_data EXCEPT ![r] = b]
    /\ Completed(r, "read", "decode")
    /\ UNCHANGED <<filename, type_model, local_vars, out_vars, save_env, disk_file, x_vars>>

DecodeSavingUpload(r) ==
    /\ pc[r] = "decode"
    /\ LET o == Image_open(image_data[r]) IN
        IF o.raised # NoException
        THEN /\ Raise(r, o.raised)
             /\ UNCHANGED <<image, steps>>
        ELSE /\ image' = [image EXCEPT ![r] = o.value]
             /\ Completed(r, "decode", "load")
             /\ UNCHANGED out_vars
    /\ disk_file' = [img |-> image_data[r], boxes |-> << >>]
    /\ UNCHANGED <<req_vars, model, results, detected_objects, inferred_image_path,
                   save_env, x_vars>>

\* detect.py 36: image = Image.open(BytesIO(image_data)).
Decode(r) ==
    /\ pc[r] = "decode"
    /\ LET o == Image_open(image_data[r]) IN
        IF o.raised # NoException
        THEN /\ Raise(r, o.raised)
             /\ UNCHANGED <<image, steps>>
        ELSE /\ image' = [image EXCEPT ![r] = o.value]
             /\ Completed(r, "decode", "load")
             /\ UNCHANGED out_vars
    /\ UNCHANGED <<req_vars, model, results, detected_objects, inferred_image_path,
                   save_env, disk_file, x_vars>>

\* detect.py 37: model = load_model(type_model).
LoadModel(r) ==
    /\ pc[r] = "load"
    /\ LET m == load_model(type_model[r]) IN
        IF m.raised # NoException
        THEN /\ Raise(r, m.raised)
             /\ UNCHANGED <<model, steps>>
        ELSE /\ model' = [model EXCEPT ![r] = m.value]
             /\ Completed(r, "load", "infer")
             /\ UNCHANGED out_vars
    /\ UNCHANGED <<req_vars, image, results, detected_objects, inferred_image_path,
                   save_env, disk_file, x_vars>>

detection_input_latest(r) ==
    IF \E q \in Requests : q # r /\ image[q] # None
    THEN image[CHOOSE q \in Requests : q # r /\ image[q] # None]
    ELSE image[r]

\* The picture detection runs on.
detection_input(r) == image[r]

\* detect.py 38: results = perform_detection(model=model, image=image).
PerformDetection(r) ==
    /\ pc[r] = "infer"
    /\ LET d == perform_detection(model[r], detection_input(r)) IN
        IF d.raised # NoException
        THEN /\ Raise(r, d.raised)
             /\ UNCHANGED <<results, steps>>
        ELSE /\ results' = [results EXCEPT ![r] = d.value]
             /\ Completed(r, "infer", "extract")
             /\ UNCHANGED out_vars
    /\ UNCHANGED <<req_vars, image, model, detected_objects, inferred_image_path,
                   save_env, disk_file, x_vars>>

\* detect.py 39: detected_objects = extract_detection_results(results).
Extract(r) ==
    /\ pc[r] = "extract"
    /\ detected_objects' =
          [detected_objects EXCEPT ![r] = extract_detection_results(results[r])]
    /\ Completed(r, "extract", "render")
    /\ UNCHANGED <<req_vars, image, model, results, inferred_image_path, out_vars,
                   save_env, disk_file, x_vars>>

\* detect.py 40: inferred_image_path = render_and_save_image(results).
Render(r) ==
    /\ pc[r] = "render"
    /\ LET w == render_and_save_image(results[r], save_env, disk_file) IN
        /\ disk_file' = w.file
        /\ IF w.raised # NoException
           THEN /\ Raise(r, w.raised)
                /\ UNCHANGED <<inferred_image_path, steps>>
           ELSE /\ inferred_image_path' = [inferred_image_path EXCEPT ![r] = w.value]
                /\ Completed(r, "render", "respond")
                /\ UNCHANGED out_vars
    /\ UNCHANGED <<req_vars, image, model, results, detected_objects, save_env, x_vars>>

\* detect.py 42-46 and app.py 87-91: detect_objects returns its dict and the
\* handler answers.
Respond(r) ==
    /\ pc[r] = "respond"
    /\ response' = [response EXCEPT ![r] =
          detect_return(detect_objects_return(
              detected_objects[r], results[r], inferred_image_path[r]))]
    /\ Completed(r, "respond", "done")
    /\ UNCHANGED <<req_vars, local_vars, raised, save_env, disk_file, x_vars>>

Next ==
    \E r \in Requests :
        \/ Detect(r)
        \/ ReadFile(r)
        \/ Decode(r)
        \/ LoadModel(r)
        \/ PerformDetection(r)
        \/ Extract(r)
        \/ Render(r)
        \/ Respond(r)

Spec == Init /\ [][Next]_vars

\* ------------------------------------------------- the normalizer alone

\* Results.orig_shape, (height, width), of the picture the raw results are
\* drawn for.
RAW_SHAPE == <<1, 2>>

\* Every row the predictor can put in boxes.data for that picture: a box
\* clipped to the picture with x1 <= x2 and y1 <= y2, a confidence between
\* the 0.25 threshold and 1, a class id of the label table.
RAW_ROWS ==
    { <<x1, y1, x2, y2, c, k>> :
        x1 \in 0..RAW_SHAPE[2], y1 \in 0..RAW_SHAPE[1],
        x2 \in 0..RAW_SHAPE[2], y2 \in 0..RAW_SHAPE[1],
        c \in {25, 100}, k \in DOMAIN NAMES }

RAW_BOXES ==
    UNION { [1..n -> { row \in RAW_ROWS : row[1] <= row[3] /\ row[2] <= row[4] }] :
              n \in 0..MaxBoxes }

NormalizeInit ==
    /\ pc = [r \in Requests |-> "idle"]
    /\ filename = [r \in Requests |-> None]
    /\ type_model = [r \in Requests |-> ""]
    /\ image_data = [r \in Requests |-> ""]
    /\ image = [r \in Requests |-> None]
    /\ model = [r \in Requests |-> None]
    /\ results = [r \in Requests |-> None]
    /\ detected_objects = [r \in Requests |-> << >>]
    /\ inferred_image_path = [r \in Requests |-> None]
    /\ response = [r \in Requests |-> None]
    /\ raised = [r \in Requests |-> NoException]
    /\ steps = [r \in Requests |-> {}]
    /\ save_env = "ok"
    /\ disk_file = NoFile
    /\ x_pc = "input"
    /\ \E b \in RAW_BOXES :
         x_results = << [boxes |-> b, names |-> NAMES,
                         speed |-> Speed(MODEL_PATHS["fast"]),
                         orig_shape |-> RAW_SHAPE,
                         orig_img |-> [id |-> "raw", channels |-> <<"B", "G", "R">>]] >>
    /\ x_records = << >>

\* extract_detection_results applied to the raw results.
Normalize ==
    /\ x_pc = "input"
    /\ x_records' = extract_detection_results(x_results)
    /\ x_pc' = "done"
    /\ UNCHANGED <<pc, req_vars, local_vars, out_vars, steps, save_env, disk_file,
                   x_results>>

SpecNormalize == NormalizeInit /\ [][Normalize]_vars

\* ----------------------------------------------------------------- claims

VALID_SELECTORS == {"fast", "accurate"}

Finished(r) == pc[r] = "done"

\* C1: a request that passed validation and whose pipeline completed is
\* answered 200 with the JSON array of its detection records when there is at
\* least one, and with exactly {"message": "No objects detected"} when there
\* is none.
C1_ResponseIsArrayOrMessage ==
    \A r \in Requests :
        (Finished(r) /\ "respond" \in steps[r]) =>
            /\ response[r].status_code = 200
            /\ IF detected_objects[r] # << >>
               THEN /\ response[r].content.py = "list"
                    /\ response[r].content.v = detected_objects[r]
               ELSE /\ response[r].content.py = "dict"
                    /\ DOMAIN response[r].content.v = {"message"}
                    /\ response[r].content.v.message = "No objects detected"

\* C2: a request with a valid image file and a type_model outside
\* {fast, accurate} is answered 400 with a body {"error": <string>}; it never
\* ends as an unhandled exception.
C2_InvalidSelectorIs400 ==
    \A r \in Requests :
        (Finished(r) /\ "decode" \in steps[r] /\ type_model[r] \notin VALID_SELECTORS) =>
            /\ raised[r] = NoException
            /\ response[r].status_code = 400
            /\ response[r].content.py = "dict"
            /\ DOMAIN response[r].content.v = {"error"}

\* C3: a request whose file name has an allowed extension but whose bytes are
\* not an image is answered with a 400-class error; it never ends as an
\* unhandled exception.
C3_UndecodableIs4xx ==
    \A r \in Requests :
        (Finished(r) /\ "read" \in steps[r] /\ image_data[r] = "notes_txt") =>
            /\ raised[r] = NoException
            /\ response[r].status_code \in 400..499

BadExtension(r) ==
    /\ pc[r] # "idle"
    /\ filename[r] # None
    /\ ~ endswith(lower(filename[r].v), ALLOWED_SUFFIXES)

\* C4: a request whose lower-cased file name ends with none of .jpg, .jpeg,
\* .png is answered 400 with "Invalid file type. Allowed types: jpg, jpeg,
\* png.", and for it the upload is never read, no image decoded, no model
\* loaded, no inference run and nothing rendered.
C4_BadExtensionRejectedFirst ==
    \A r \in Requests :
        BadExtension(r) =>
            /\ Finished(r)
            /\ response[r].status_code = 400
            /\ response[r].content =
                  Dict([error |-> "Invalid file type. Allowed types: jpg, jpeg, png."])
            /\ steps[r] = {}
            /\ raised[r] = NoException
            /\ image_data[r] = ""
            /\ image[r] = None
            /\ model[r] = None
            /\ results[r] = None
            /\ inferred_image_path[r] = None

\* A .gif upload has been rejected while another request rendered its picture.
C4_Witness ==
    \E r, q \in Requests :
        /\ Finished(r)
        /\ filename[r] = Str(<<"a", ".", "g", "i", "f">>)
        /\ response[r].status_code = 400
        /\ "render" \in steps[q]

\* load_model has been called for r: the statement before it completed and
\* r is past it.
LoadCalled(r) == "decode" \in steps[r] /\ pc[r] # "load"

\* C5: load_model accepts exactly fast and accurate.  For these it returns a
\* model bound to the selector's one weights path (fast: models/yolov8n.pt,
\* accurate: models/yolov8x.pt) whatever calls came before; for any other
\* string it raises the invalid-selector error listing the valid options and
\* starts no weights load.
C5_LoadModelSelectors ==
    \A r \in Requests :
        LoadCalled(r) =>
            IF type_model[r] \in VALID_SELECTORS
            THEN /\ "load" \in steps[r]
                 /\ model[r] =
                      [weights |-> IF type_model[r] = "fast"
                                   THEN "models/yolov8n.pt"
                                   ELSE "models/yolov8x.pt"]
            ELSE /\ "load" \notin steps[r]
                 /\ model[r] = None
                 /\ raised[r].type = "ValueError"
                 /\ raised[r].options = <<"fast", "accurate">>

\* One request was refused its selector and ended; another call, made in the
\* same run, returned the model of the fast weights.
C5_Witness ==
    \E r, q \in Requests :
        /\ r # q
        /\ LoadCalled(r) /\ type_model[r] = "best" /\ Finished(r)
        /\ LoadCalled(q) /\ type_model[q] = "fast"
        /\ model[q] = [weights |-> "models/yolov8n.pt"]

\* A valid request: an allowed file name, bytes of a colour picture, a valid
\* selector, in a deployment where saving the render does not raise (a
\* failed write is C9's case; a grayscale picture fails at detect.py 83
\* with or without other requests).
ValidRequest(r) ==
    /\ "read" \in steps[r]
    /\ image_data[r] \in {"blank_jpg", "street_jpg"}
    /\ type_model[r] \in VALID_SELECTORS
    /\ save_env # "raises"

\* The records the selected network finds in the request's own picture.
OwnDetections(r) ==
    IF image_data[r] = "street_jpg"
    THEN IF type_model[r] = "accurate"
         THEN << [object |-> "person", confidence |-> 91,
                  x_min |-> 0, y_min |-> 1, x_max |-> 2, y_max |-> 4],
                 [object |-> "car", confidence |-> 47,
                  x_min |-> 3, y_min |-> 0, x_max |-> 6, y_max |-> 3] >>
         ELSE << [object |-> "car", confidence |-> 62,
                  x_min |-> 3, y_min |-> 1, x_max |-> 6, y_max |-> 3] >>
    ELSE << >>

C7_RecordsInRange ==
    x_pc = "done" =>
        \A i \in 1..Len(x_records) :
            LET d == x_records[i]
                height == x_results[1].orig_shape[1]
                width == x_results[1].orig_shape[2]
            IN  /\ 0 <= d.confidence /\ d.confidence <= 100
                /\ d.x_min <= d.x_max
                /\ d.y_min <= d.y_max
                /\ 0 <= d.x_min /\ d.x_max <= width
                /\ 0 <= d.y_min /\ d.y_max <= height

\* Records were extracted, one of them a proper box reaching the picture's
\* right and bottom edges.
C7_Witness ==
    /\ x_pc = "done"
    /\ Len(x_records) = 2
    /\ \E i \in 1..Len(x_records) :
        /\ x_records[i].x_min < x_records[i].x_max
        /\ x_records[i].x_max = RAW_SHAPE[2]
        /\ x_records[i].y_max = RAW_SHAPE[1]
        /\ x_records[i].confidence = 100

\* C8: extract_detection_results emits one record per raw prediction of the
\* first result, in the detector's order: the i-th record has the label-table
\* name of the i-th class id and the i-th confidence and box unchanged; a
\* result without boxes gives the empty sequence.
C8_OneRecordPerPrediction ==
    x_pc = "done" =>
        LET rows == x_results[1].boxes IN
        /\ Len(x_records) = Len(rows)
        /\ (Len(rows) = 0 => x_records = << >>)
        /\ \A i \in 1..Len(rows) :
            /\ x_records[i].object = (IF rows[i][6] = 0 THEN "person" ELSE "car")
            /\ x_records[i].confidence = rows[i][5]
            /\ <<x_records[i].x_min, x_records[i].y_min,
                 x_records[i].x_max, x_records[i].y_max>> = SubSeq(rows[i], 1, 4)
            /\ DOMAIN x_records[i] =
                 {"object", "confidence", "x_min", "y_min", "x_max", "y_max"}

\* Two predictions of different classes and boxes were extracted in order.
C8_Witness ==
    /\ x_pc = "done"
    /\ Len(x_records) = 2
    /\ x_records[1].object = "car"
    /\ x_records[2].object = "person"
    /\ x_records[1].x_min # x_records[2].x_min
    /\ x_records[1].confidence # x_records[2].confidence

\* C9: when decoding, model load, inference and normalization succeeded and
\* only the write of the rendered image fails, the request still returns its
\* detections, with inferred_image_path omitted or null.
C9_RenderFailureNotFatal ==
    \A r \in Requests :
        (Finished(r) /\ "extract" \in steps[r] /\ save_env # "ok") =>
            /\ response[r].status_code = 200
            /\ response[r].content.py = "dict"
            /\ "detected_objects" \in DOMAIN response[r].content.v
            /\ response[r].content.v.detected_objects = List(detected_objects[r])
            /\ \/ "inferred_image_path" \notin DOMAIN response[r].content.v
               \/ response[r].content.v.inferred_image_path = None

\* r takes its render step, every earlier pipeline statement completed.
RenderStep(r) ==
    /\ pc[r] = "render"
    /\ pc'[r] # "render"
    /\ {"read", "decode", "load", "infer", "extract"} \subseteq steps[r]

\* r ends in this step before reaching its render.
EndsEarly(r) ==
    /\ pc[r] \notin {"done", "render", "respond"}
    /\ pc'[r] = "done"

\* C10: the rendered file is written only by a request's render step, after
\* its decode, model load, inference and normalization succeeded; a request
\* that ends earlier leaves the file as it was.
C10_FileWrittenOnlyByRender ==
    [][ /\ (disk_file' # disk_file => \E r \in Requests : RenderStep(r))
        /\ \A r \in Requests : EndsEarly(r) => disk_file' = disk_file ]_vars

\* A request failed before its render while the file holds the render of
\* another request.
C10_Witness ==
    \E r, q \in Requests :
        /\ r # q
        /\ Finished(r) /\ raised[r] # NoException /\ "render" \notin steps[r]
        /\ "render" \in steps[q]
        /\ disk_file = Plot(results[q][1])
        /\ disk_file # NoFile

====
